---------------------------- MODULE Spec2Model ----------------------------
(***************************************************************************)
(* Model of the Claude AI auto-deploy system:                              *)
(*   claude_ai_deployer.py  - ROUTING_RULES, ClaudeAIDeployer, main        *)
(*   deployment_verifier.py - DeploymentVerifier, main                     *)
(*                                                                         *)
(* Python strings that the code inspects or concatenates (file names, path *)
(* prefixes, target paths) are sequences of one-character strings, so that *)
(* re.match, str.startswith and + are computed and not assumed.  Strings   *)
(* that are only copied (repository names, descriptions, status tags) are  *)
(* TLA+ strings.  File contents, checksums, sizes, timestamps and the curl *)
(* command text are not modelled.                                          *)
(*                                                                         *)
(* Three specifications share the module:                                  *)
(*   RouteSpec  - route_file applied to bounded file paths                 *)
(*   Spec       - the deployer object: __init__, deploy_all, report, save  *)
(*   VerifySpec - the verifier's main (VerifyLive: the same with fairness) *)
(***************************************************************************)
EXTENDS Integers, Sequences, FiniteSets, TLC

VARIABLES
    \* ---- file system
    outputs_exists,   \* OUTPUTS_DIR exists
    outputs_items,    \* its regular files in rglob order: [path, readable]
    log_file,         \* /home/claude/deployment_log.json
    report_file,      \* /home/claude/verification_report.json
    \* ---- ClaudeAIDeployer and the caller of its methods
    deployment_log,   \* self.deployment_log
    files,            \* deploy_all: files
    idx,              \* deploy_all: position of the for loop (1-based)
    results,          \* deploy_all: results
    report,           \* counts rendered by generate_deployment_report
    calls,            \* deploy_all calls made on this deployer object
    pc,               \* the caller's position
    \* ---- DeploymentVerifier and its main
    vpc,              \* position in main / verify_all
    log_data,         \* self.log_data
    vi,               \* verify_all: position of the for loop (1-based)
    verified,         \* verify_all: verified
    failed,           \* verify_all: failed
    vresults,         \* verify_all: results
    summary,          \* verify_all's return value
    trace,            \* what the process did to the outside: sleeps and queries
    exit_code,        \* the process's exit status
    \* ---- route_file under test
    route_in,
    route_out

fsvars == <<outputs_exists, outputs_items, log_file, report_file>>
dvars  == <<deployment_log, files, idx, results, report, calls, pc>>
vvars  == <<vpc, log_data, vi, verified, failed, vresults, summary, trace, exit_code>>
rvars  == <<route_in, route_out>>
vars   == <<fsvars, dvars, vvars, rvars>>

-----------------------------------------------------------------------------
(* Bounds *)

\* files in the outputs directory
MaxFiles == 3
\* deploy_all calls on one deployer object
MaxCalls == 2
\* entries of the log the verifier loads
MaxEntries == 3
\* tokens a file name under route_file is made of
MaxTokens == 3

-----------------------------------------------------------------------------
(* Strings *)

\* Python's None, and a value no record of the program equals
None == [none |-> TRUE]

\* the exit status of a process that has not exited
Running == -1

UpperCase == <<"A","B","C","D","E","F","G","H","I","J","K","L","M",
               "N","O","P","Q","R","S","T","U","V","W","X","Y","Z">>
LowerCase == <<"a","b","c","d","e","f","g","h","i","j","k","l","m",
               "n","o","p","q","r","s","t","u","v","w","x","y","z">>

\* str.lower on the ASCII letters
FoldCase ==
    [c \in {UpperCase[i] : i \in 1..26} |->
        LowerCase[CHOOSE i \in 1..26 : UpperCase[i] = c]]

\* re.IGNORECASE compares characters after case folding
Lower(c) == IF c \in DOMAIN FoldCase THEN FoldCase[c] ELSE c

\* str.startswith
StartsWith(s, prefix) ==
    /\ Len(s) >= Len(prefix)
    /\ \A i \in 1..Len(prefix) : s[i] = prefix[i]

RECURSIVE Flatten(_)
Flatten(ss) == IF ss = <<>> THEN <<>> ELSE Head(ss) \o Flatten(Tail(ss))

\* a path: its parent directory (with the trailing separator) and its name
Path(parent, name) == [parent |-> parent, name |-> name]
\* Path.name
PathName(p) == p.name
\* str(Path)
PathStr(p) == p.parent \o p.name

N_deploy_yml == <<"d","e","p","l","o","y",".","y","m","l">>
N_scraper_main_py == <<"s","c","r","a","p","e","r","_","m","a","i","n",".","p","y">>
N_notes_md == <<"n","o","t","e","s",".","m","d">>
N_pipeline_scraper_py == <<"p","i","p","e","l","i","n","e","_","s","c","r","a","p","e","r",".","p","y">>
N_pipeline_py == <<"p","i","p","e","l","i","n","e",".","p","y">>
N_hidden == <<".","e","n","v">>
N_SKILL_md == <<"S","K","I","L","L",".","m","d">>
N_Skill_md == <<"S","k","i","l","l",".","m","d">>

-----------------------------------------------------------------------------
(* Regular expressions: the subset ROUTING_RULES uses, matched as re.match *)
(* does (anchored at the start, not at the end).                           *)

\* .*
DotStar == << [k |-> "dotstar"] >>
\* the literal characters of s (an escaped \. is the literal dot)
Lit(s) == [i \in 1..Len(s) |-> [k |-> "lit", c |-> s[i]]]
\* (a|b|c)
Alt(opts) == << [k |-> "alt", opts |-> opts] >>
\* $
Eol == << [k |-> "eol"] >>

\* the literal s is at position j of str, ignoring case
LitAt(s, str, j) ==
    /\ j + Len(s) - 1 <= Len(str)
    /\ \A i \in 1..Len(s) : Lower(str[j + i - 1]) = Lower(s[i])

\* . matches any character except a newline: the positions .* can stop at
RECURSIVE DotRun(_, _)
DotRun(str, j) ==
    IF j <= Len(str) /\ str[j] # "\n" THEN {j} \cup DotRun(str, j + 1) ELSE {j}

RECURSIVE MatchHere(_, _, _, _)
MatchHere(p, i, str, j) ==
    IF i > Len(p) THEN TRUE
    ELSE LET e == p[i] IN
      CASE e.k = "lit" ->
             /\ j <= Len(str)
             /\ Lower(str[j]) = Lower(e.c)
             /\ MatchHere(p, i + 1, str, j + 1)
        [] e.k = "dotstar" ->
             \E m \in DotRun(str, j) : MatchHere(p, i + 1, str, m)
        [] e.k = "alt" ->
             \E o \in e.opts :
                 LitAt(o, str, j) /\ MatchHere(p, i + 1, str, j + Len(o))
        [] e.k = "eol" ->
             \* $ matches at the end and before a newline that ends the string
             /\ \/ j = Len(str) + 1
                \/ j = Len(str) /\ str[j] = "\n"
             /\ MatchHere(p, i + 1, str, j)

\* re.match(pattern, string, re.IGNORECASE) is not None
re_match(pattern, str) == MatchHere(pattern, 1, str, 1)

-----------------------------------------------------------------------------
(* Routing *)

Dest(repo, path, description) ==
    [repo |-> repo, path |-> path, description |-> description]

P_workflows == <<".","g","i","t","h","u","b","/","w","o","r","k","f","l","o","w","s","/">>
P_nodes == <<"s","r","c","/","n","o","d","e","s","/">>
P_agents == <<"s","r","c","/","a","g","e","n","t","s","/">>
P_scrapers == <<"s","r","c","/","s","c","r","a","p","e","r","s","/">>
P_src == <<"s","r","c","/">>
P_public == <<"p","u","b","l","i","c","/">>
P_docs == <<"d","o","c","s","/">>
P_reports == <<"r","e","p","o","r","t","s","/">>
P_skills == <<"s","k","i","l","l","s","/">>
P_artifacts == <<"a","r","t","i","f","a","c","t","s","/">>

R_yml == [pattern |-> DotStar \o Lit(<<".","y","m","l">>) \o Eol,
          target |-> Dest("life-os", P_workflows, "GitHub Actions workflow")]
R_node == [pattern |-> DotStar \o Lit(<<"_","n","o","d","e">>) \o DotStar
                       \o Lit(<<".","p","y">>) \o Eol,
           target |-> Dest("life-os", P_nodes, "LangGraph node module")]
R_agent == [pattern |-> DotStar \o Lit(<<"_","a","g","e","n","t">>) \o DotStar
                        \o Lit(<<".","p","y">>) \o Eol,
            target |-> Dest("life-os", P_agents, "Agent module")]
R_scraper == [pattern |-> DotStar \o Lit(<<"_","s","c","r","a","p","e","r">>) \o DotStar
                          \o Lit(<<".","p","y">>) \o Eol,
              target |-> Dest("brevard-bidder-scraper", P_scrapers, "Scraper module")]
R_py == [pattern |-> DotStar \o Lit(<<".","p","y">>) \o Eol,
         target |-> Dest("life-os", P_src, "Python module")]
R_web == [pattern |-> DotStar \o Lit(<<".">>)
                      \o Alt({<<"h","t","m","l">>, <<"c","s","s">>, <<"j","s">>}) \o Eol,
          target |-> Dest("biddeed-conversational-ai", P_public, "Web artifact")]
R_md == [pattern |-> DotStar \o Lit(<<".","m","d">>) \o Eol,
         target |-> Dest("life-os", P_docs, "Documentation")]
R_docx == [pattern |-> DotStar \o Lit(<<".","d","o","c","x">>) \o Eol,
           target |-> Dest("life-os", P_reports, "Document report")]
R_pdf == [pattern |-> DotStar \o Lit(<<".","p","d","f">>) \o Eol,
          target |-> Dest("life-os", P_reports, "PDF report")]
R_skill == [pattern |-> Lit(<<"S","K","I","L","L",".","m","d">>) \o Eol,
            target |-> Dest("life-os", P_skills, "Skill documentation")]

\* the dict with SKILL.md declared first (what a Skills rule that wins needs)
ROUTING_RULES_SkillFirst ==
    <<R_skill, R_yml, R_node, R_agent, R_scraper, R_py, R_web, R_md, R_docx, R_pdf>>

\* the dict's items in insertion order, which ROUTING_RULES.items() iterates
ROUTING_RULES ==
    <<R_yml, R_node, R_agent, R_scraper, R_py, R_web, R_md, R_docx, R_pdf, R_skill>>

\* the fallback of route_file
DefaultDest == Dest("life-os", P_artifacts, "Unclassified artifact")

Routed(target, filename) ==
    [repo |-> target.repo, path |-> target.path,
     description |-> target.description, filename |-> filename]

\* the for loop of route_file from rule k on
RECURSIVE RouteFrom(_, _)
RouteFrom(k, filename) ==
    IF k > Len(ROUTING_RULES) THEN Routed(DefaultDest, filename)
    ELSE IF re_match(ROUTING_RULES[k].pattern, filename)
         THEN Routed(ROUTING_RULES[k].target, filename)
         ELSE RouteFrom(k + 1, filename)

\* route_file that lets the last matching rule win
RECURSIVE RouteLastFrom(_, _, _)
RouteLastFrom(k, filename, best) ==
    IF k > Len(ROUTING_RULES) THEN Routed(best, filename)
    ELSE RouteLastFrom(k + 1, filename,
             IF re_match(ROUTING_RULES[k].pattern, filename)
             THEN ROUTING_RULES[k].target ELSE best)

route_file_LastMatch(filepath) == RouteLastFrom(1, PathName(filepath), DefaultDest)

\* route_file that matches the rule with the scraper prefix left optional
route_file_AnyScraper(filepath) ==
    LET filename == PathName(filepath) IN
    IF /\ ~re_match(R_yml.pattern, filename)
       /\ ~re_match(R_node.pattern, filename)
       /\ ~re_match(R_agent.pattern, filename)
       /\ re_match(DotStar \o Lit(<<"s","c","r","a","p","e","r">>) \o DotStar
                   \o Lit(<<".","p","y">>) \o Eol, filename)
    THEN Routed(R_scraper.target, filename)
    ELSE RouteFrom(1, filename)

route_file(filepath) == RouteFrom(1, PathName(filepath))

-----------------------------------------------------------------------------
(* The outputs directory *)

\* OUTPUTS_DIR, with the separator that joins it to a name
OUTPUTS_DIR ==
    <<"/","m","n","t","/","u","s","e","r","-","d","a",
      "t","a","/","o","u","t","p","u","t","s","/">>

DirNames ==
    {N_deploy_yml, N_scraper_main_py, N_notes_md, N_hidden}

\* the directories of at most maxFiles regular files, each readable or not,
\* in every order rglob may yield them
Directories(maxFiles) ==
    UNION { { [i \in 1..n |-> [path |-> Path(OUTPUTS_DIR, s[i]), readable |-> r[i]]] :
                s \in {t \in [1..n -> DirNames] :
                         \A a, b \in 1..n : a # b => t[a] # t[b]},
                r \in [1..n -> BOOLEAN] } :
            n \in 0..maxFiles }

IsVisible(item) == ~StartsWith(PathName(item.path), <<".">>)

\* scan_outputs
scan_outputs ==
    IF ~outputs_exists THEN <<>>
    ELSE LET kept == SelectSeq(outputs_items, IsVisible)
         IN  [i \in 1..Len(kept) |-> kept[i].path]

\* read_text, open and stat succeed on filepath
Readable(filepath) ==
    \E i \in 1..Len(outputs_items) :
        outputs_items[i].path = filepath /\ outputs_items[i].readable

-----------------------------------------------------------------------------
(* ClaudeAIDeployer *)

\* str(e) of the OSError that reading an unreadable file raises
ReadError == "[Errno 13] Permission denied"

\* encode_file, then calculate_checksum and stat in
\* create_deployment_manifest: whether one of them raises
encode_file_raises(filepath) == ~Readable(filepath)

create_deployment_manifest(filepath, route) ==
    [source_file |-> PathStr(filepath),
     filename    |-> PathName(filepath),
     target_repo |-> route.repo,
     target_path |-> route.path \o PathName(filepath),
     description |-> route.description,
     deployed_by |-> "claude-ai-deployer",
     version     |-> "1.0.0"]

push_to_github(manifest) ==
    [status |-> "prepared",
     repo   |-> manifest.target_repo,
     path   |-> manifest.target_path]

\* self.deployment_log.append(entry), with the entry put first
LogAppend_Prepend(log, entry) == <<entry>> \o log

\* self.deployment_log.append(entry)
LogAppend(log, entry) == Append(log, entry)

\* the entry deploy_file appends for a file whose steps all succeed
LogEntry(filepath) ==
    LET manifest == create_deployment_manifest(filepath, route_file(filepath))
    IN  [filepath |-> PathStr(filepath),
         manifest |-> manifest,
         result   |-> push_to_github(manifest)]

\* deploy_file: [raised, error] when a step raises, else [raised, result, log]
deploy_file(filepath, log) ==
    IF encode_file_raises(filepath)
    THEN [raised |-> TRUE, error |-> ReadError]
    ELSE LET entry == LogEntry(filepath)
         IN  [raised |-> FALSE,
              result |-> entry.result,
              log    |-> LogAppend(log, entry)]

\* sum(1 for log in self.deployment_log if log['result']['status'] == tag)
CountStatus(log, tag) ==
    Cardinality({i \in 1..Len(log) : log[i].result.status = tag})

generate_deployment_report_counts(log) ==
    [total    |-> Len(log),
     prepared |-> CountStatus(log, "prepared"),
     failed   |-> CountStatus(log, "failed")]

\* the document save_deployment_log writes
log_document(log) ==
    [version |-> "1.0.0",
     total_deployments |-> Len(log),
     deployments |-> log]

\* the verifier is not running
VerifierOff ==
    /\ vpc = "off"
    /\ log_data = None
    /\ vi = 0
    /\ verified = 0
    /\ failed = 0
    /\ vresults = <<>>
    /\ summary = None
    /\ trace = <<>>
    /\ exit_code = Running
    /\ report_file = None

\* route_file is not under test
RouteOff ==
    /\ route_in = None
    /\ route_out = None

\* ClaudeAIDeployer(): the object after __init__, nothing called yet
Fresh ==
    /\ deployment_log = <<>>
    /\ files = <<>>
    /\ idx = 0
    /\ results = <<>>
    /\ report = None
    /\ calls = 0
    /\ pc = "constructed"

Init ==
    /\ outputs_exists \in BOOLEAN
    /\ outputs_items \in Directories(MaxFiles)
    /\ ~outputs_exists => outputs_items = <<>>
    /\ log_file = None
    /\ Fresh
    /\ VerifierOff
    /\ RouteOff

\* a new process constructs a deployer: __init__
Construct ==
    /\ pc \in {"returned", "reported", "saved"}
    /\ deployment_log' = <<>>
    /\ files' = <<>>
    /\ idx' = 0
    /\ results' = <<>>
    /\ report' = None
    /\ calls' = 0
    /\ pc' = "constructed"
    /\ UNCHANGED <<fsvars, vvars, rvars>>

\* deploy_all up to the for loop
DeployAllBegin ==
    /\ pc # "loop"
    /\ calls < MaxCalls
    /\ calls' = calls + 1
    /\ files' = scan_outputs
    /\ results' = <<>>
    /\ idx' = 1
    /\ pc' = IF scan_outputs = <<>> THEN "returned" ELSE "loop"
    /\ UNCHANGED <<deployment_log, report, fsvars, vvars, rvars>>

\* one iteration of the for loop with no except clause: what deploy_file
\* raises ends deploy_all
DeployAllIter_NoExcept ==
    /\ pc = "loop"
    /\ \E out \in {deploy_file(files[idx], deployment_log)} :
           IF out.raised
           THEN /\ pc' = "returned"
                /\ UNCHANGED <<results, deployment_log, idx>>
           ELSE /\ results' = Append(results, out.result)
                /\ deployment_log' = out.log
                /\ idx' = idx + 1
                /\ pc' = IF idx = Len(files) THEN "returned" ELSE "loop"
    /\ UNCHANGED <<files, report, calls, fsvars, vvars, rvars>>

\* one iteration of the for loop: deploy_file inside try/except
DeployAllIter ==
    /\ pc = "loop"
    /\ \E out \in {deploy_file(files[idx], deployment_log)} :
           IF out.raised
           THEN /\ results' = Append(results, [status   |-> "failed",
                                               error    |-> out.error,
                                               filepath |-> PathStr(files[idx])])
                /\ UNCHANGED deployment_log
           ELSE /\ results' = Append(results, out.result)
                /\ deployment_log' = out.log
    /\ idx' = idx + 1
    /\ pc' = IF idx = Len(files) THEN "returned" ELSE "loop"
    /\ UNCHANGED <<files, report, calls, fsvars, vvars, rvars>>

GenerateReport ==
    /\ pc \in {"constructed", "returned", "saved"}
    /\ report' = generate_deployment_report_counts(deployment_log)
    /\ pc' = "reported"
    /\ UNCHANGED <<deployment_log, files, idx, results, calls, fsvars, vvars, rvars>>

SaveDeploymentLog ==
    /\ pc \in {"constructed", "returned", "reported"}
    /\ log_file' = log_document(deployment_log)
    /\ pc' = "saved"
    /\ UNCHANGED <<outputs_exists, outputs_items, report_file, deployment_log,
                   files, idx, results, report, calls, vvars, rvars>>

Next ==
    \/ Construct
    \/ DeployAllBegin
    \/ DeployAllIter
    \/ GenerateReport
    \/ SaveDeploymentLog

Spec == Init /\ [][Next]_vars

-----------------------------------------------------------------------------
(* DeploymentVerifier *)

\* a log file whose text json.loads rejects
Garbage == [garbage |-> TRUE]

VerifyNames == {N_deploy_yml, N_notes_md}

\* what the log path may hold when the verifier starts: nothing, text that
\* is not JSON, or a document saved by the deployer
LogFiles(maxEntries) ==
    {None, Garbage}
    \cup UNION { { log_document([i \in 1..n |-> LogEntry(Path(OUTPUTS_DIR, s[i]))]) :
                     s \in [1..n -> VerifyNames] } :
                 n \in 0..maxEntries }

\* what subprocess.run(curl, timeout=10) does: returns with the status code
\* on stdout ("000" when curl could not connect), or raises TimeoutExpired
Outcomes ==
    { [raised |-> FALSE, stdout |-> <<"2","0","0">>],
      [raised |-> FALSE, stdout |-> <<"4","0","4">>],
      [raised |-> FALSE, stdout |-> <<"0","0","0">>],
      [raised |-> TRUE,  stdout |-> <<>>] }

Whitespace == {" ", "\n", "\t", "\r"}

\* str.strip
RECURSIVE Strip(_)
Strip(s) ==
    IF s = <<>> THEN s
    ELSE IF Head(s) \in Whitespace THEN Strip(Tail(s))
    ELSE IF s[Len(s)] \in Whitespace THEN Strip(SubSeq(s, 1, Len(s) - 1))
    ELSE s

\* verify_file_exists that takes every status curl prints as found
verify_file_exists_AnyStatus(outcome) == ~outcome.raised

\* verify_file_exists, given what the curl subprocess does
verify_file_exists(outcome) ==
    IF outcome.raised THEN FALSE
    ELSE Strip(outcome.stdout) = <<"2","0","0">>

RECURSIVE Gcd(_, _)
Gcd(a, b) == IF b = 0 THEN a ELSE Gcd(b, a % b)

\* the value of the float n / d, kept exact as a fraction in lowest terms
Float(n, d) == [num |-> n \div Gcd(n, d), den |-> d \div Gcd(n, d)]

\* Python's n / d
PyDiv(n, d) ==
    IF d = 0 THEN [raised |-> TRUE, error |-> "ZeroDivisionError"]
    ELSE [raised |-> FALSE, value |-> Float(n, d)]

\* the dict verify_all returns
verify_all_return(total, nverified, nfailed, details) ==
    [total        |-> total,
     verified     |-> nverified,
     failed       |-> nfailed,
     success_rate |-> IF total > 0 THEN PyDiv(nverified, total).value ELSE Float(0, 1),
     details      |-> details]

\* the delay of verify_all recorded as skipped
Slept_Skipped(t) == t

\* time.sleep(2) has elapsed
Slept(t) == Append(t, [ev |-> "sleep"])

Deployments == log_data.deployments

VerifyInit ==
    /\ outputs_exists = FALSE
    /\ outputs_items = <<>>
    /\ log_file \in LogFiles(MaxEntries)
    /\ report_file = None
    /\ Fresh
    /\ vpc = "start"
    /\ log_data = None
    /\ vi = 0
    /\ verified = 0
    /\ failed = 0
    /\ vresults = <<>>
    /\ summary = None
    /\ trace = <<>>
    /\ exit_code = Running
    /\ RouteOff

\* DeploymentVerifier(log_path): _load_log
LoadLog ==
    /\ vpc = "start"
    /\ IF log_file = None
       THEN \* sys.exit(1)
            /\ exit_code' = 1
            /\ vpc' = "done"
            /\ UNCHANGED log_data
       ELSE IF log_file = Garbage
       THEN \* json.loads raises; nothing catches it
            /\ exit_code' = 1
            /\ vpc' = "done"
            /\ UNCHANGED log_data
       ELSE /\ log_data' = log_file
            /\ vpc' = "verify_all"
            /\ UNCHANGED exit_code
    /\ UNCHANGED <<vi, verified, failed, vresults, summary, trace,
                   fsvars, dvars, rvars>>

\* verify_all up to the for loop
VerifyAllBegin ==
    /\ vpc = "verify_all"
    /\ vi' = 1
    /\ verified' = 0
    /\ failed' = 0
    /\ vresults' = <<>>
    /\ vpc' = IF Deployments = <<>> THEN "summary" ELSE "sleep"
    /\ UNCHANGED <<log_data, summary, trace, exit_code, fsvars, dvars, rvars>>

\* the loop body up to and including time.sleep(2)
VerifySleep ==
    /\ vpc = "sleep"
    /\ trace' = Slept(trace)
    /\ vpc' = "query"
    /\ UNCHANGED <<log_data, vi, verified, failed, vresults, summary, exit_code,
                   fsvars, dvars, rvars>>

\* the rest of the loop body: verify_file_exists, the counters, the result
VerifyQuery ==
    /\ vpc = "query"
    /\ \E outcome \in Outcomes :
         LET manifest == Deployments[vi].manifest
             exists   == verify_file_exists(outcome)
         IN  /\ trace' = Append(trace, [ev      |-> "query",
                                        repo    |-> manifest.target_repo,
                                        path    |-> manifest.target_path,
                                        outcome |-> outcome])
             /\ verified' = IF exists THEN verified + 1 ELSE verified
             /\ failed' = IF exists THEN failed ELSE failed + 1
             /\ vresults' = Append(vresults, [filename |-> manifest.filename,
                                              repo     |-> manifest.target_repo,
                                              path     |-> manifest.target_path,
                                              verified |-> exists])
    /\ vi' = vi + 1
    /\ vpc' = IF vi = Len(Deployments) THEN "summary" ELSE "sleep"
    /\ UNCHANGED <<log_data, summary, exit_code, fsvars, dvars, rvars>>

\* the summary printed after the loop, and the return
VerifySummary ==
    /\ vpc = "summary"
    /\ IF PyDiv(verified, Len(Deployments)).raised
       THEN \* verified/total*100 raises in the print; nothing catches it
            /\ exit_code' = 1
            /\ vpc' = "done"
            /\ UNCHANGED summary
       ELSE /\ summary' = verify_all_return(Len(Deployments), verified, failed, vresults)
            /\ vpc' = "save"
            /\ UNCHANGED exit_code
    /\ UNCHANGED <<log_data, vi, verified, failed, vresults, trace,
                   fsvars, dvars, rvars>>

\* save_verification_report
SaveVerificationReport ==
    /\ vpc = "save"
    /\ report_file' = [verification_results |-> summary]
    /\ vpc' = "exit"
    /\ UNCHANGED <<outputs_exists, outputs_items, log_file, log_data, vi, verified,
                   failed, vresults, summary, trace, exit_code, dvars, rvars>>

\* the end of main: sys.exit(1) if any verification failed, else sys.exit(0)
VerifyExit ==
    /\ vpc = "exit"
    /\ exit_code' = IF summary.failed > 0 THEN 1 ELSE 0
    /\ vpc' = "done"
    /\ UNCHANGED <<log_data, vi, verified, failed, vresults, summary, trace,
                   fsvars, dvars, rvars>>

VerifyNext ==
    \/ LoadLog
    \/ VerifyAllBegin
    \/ VerifySleep
    \/ VerifyQuery
    \/ VerifySummary
    \/ SaveVerificationReport
    \/ VerifyExit

VerifySpec == VerifyInit /\ [][VerifyNext]_vars

\* the process is scheduled until it exits
VerifyLive == VerifyInit /\ [][VerifyNext]_vars /\ WF_vars(VerifyNext)

-----------------------------------------------------------------------------
(* route_file on its own *)

Tokens ==
    { <<"p","i","p","e","l","i","n","e">>,
      <<"_","s","c","r","a","p","e","r">>,
      <<"_","n","o","d","e">>,
      <<"_","a","g","e","n","t">>,
      <<".","p","y">>,
      <<".","y","m","l">>,
      <<".","m","d">>,
      <<"S","K","I","L","L">>,
      <<"S","k","i","l","l">>,
      <<".","J","S">>,
      <<".","p","d","f">>,
      <<"\n">> }

\* the file names of at most maxTokens tokens
FileNames(maxTokens) ==
    UNION { { Flatten(t) : t \in [1..n -> Tokens] } : n \in 1..maxTokens }

\* a directory whose name the node rule's pattern would match
NodeDir == <<"x","_","n","o","d","e","/">>

RoutePaths(maxTokens) ==
    { Path(d, f) : d \in {<<>>, NodeDir}, f \in FileNames(maxTokens) }

RouteInit ==
    /\ outputs_exists = FALSE
    /\ outputs_items = <<>>
    /\ log_file = None
    /\ Fresh
    /\ VerifierOff
    /\ route_in \in RoutePaths(MaxTokens)
    /\ route_out = None

RouteFile ==
    /\ route_out = None
    /\ route_out' = route_file(route_in)
    /\ UNCHANGED <<route_in, fsvars, dvars, vvars>>

RouteNext == RouteFile

RouteSpec == RouteInit /\ [][RouteNext]_vars

-----------------------------------------------------------------------------
(* Properties of the deployer, checked under Spec *)

AfterDeployAll == calls > 0 /\ pc \in {"returned", "reported", "saved"}

IsPrepared(r) == r.status = "prepared"
IsFailed(r) == r.status = "failed"

ResultsOf(log) == [i \in 1..Len(log) |-> log[i].result]

\* C1: deploy_all never aborts on a per-file failure: it returns one outcome
\* per scanned file, in scan order; the outcome of a file whose processing
\* raises is 'failed' with an error description and its path, every other
\* outcome is 'prepared' for that file; while files remain the loop goes on.
C1_DeployAllResilient ==
    /\ calls > 0 =>
         /\ files = scan_outputs
         /\ Len(results) <= Len(files)
         /\ \A i \in 1..Len(results) :
              IF Readable(files[i])
              THEN /\ results[i].status = "prepared"
                   /\ results[i] = LogEntry(files[i]).result
              ELSE /\ results[i].status = "failed"
                   /\ results[i].error # ""
                   /\ results[i].filepath = PathStr(files[i])
    /\ pc = "loop" => Len(results) = idx - 1 /\ idx <= Len(files)
    /\ AfterDeployAll => Len(results) = Len(files)

\* C1 witness: deploy_all has returned after an unreadable file was followed
\* by a readable one
C1_Witness ==
    /\ pc = "returned"
    /\ Len(files) >= 2
    /\ ~Readable(files[1])
    /\ Readable(files[2])
    /\ results[1].status = "failed"
    /\ results[2].status = "prepared"

\* C2: after deploy_all on a fresh deployer the deployment log holds one
\* entry per scanned file, a 'failed' entry for each file that failed, and
\* the report's Failed count is the number of files that failed.
C2_FailuresLogged ==
    /\ (AfterDeployAll /\ calls = 1) =>
         /\ Len(deployment_log) = Len(files)
         /\ CountStatus(deployment_log, "failed") = Len(SelectSeq(results, IsFailed))
    /\ (pc = "reported" /\ calls = 1) =>
         report.failed = Len(SelectSeq(results, IsFailed))

\* the directory holds exactly deploy.yml, scraper_main.py and notes.md, all
\* readable, and the first deploy_all of a fresh deployer has returned
ThreeFilesDeployed ==
    /\ outputs_exists
    /\ Len(outputs_items) = 3
    /\ {outputs_items[i].path.name : i \in 1..3} =
           {N_deploy_yml, N_scraper_main_py, N_notes_md}
    /\ \A i \in 1..3 : outputs_items[i].readable
    /\ calls = 1
    /\ pc = "returned"

\* the log entry of the file called name goes to repo and to prefix + name
RoutedTo(name, repo, prefix) ==
    \E i \in 1..Len(deployment_log) :
        /\ deployment_log[i].manifest.filename = name
        /\ deployment_log[i].manifest.target_repo = repo
        /\ deployment_log[i].manifest.target_path = prefix \o name
        /\ deployment_log[i].result.repo = repo
        /\ deployment_log[i].result.path = prefix \o name

\* C5 as stated: the three files give a log of 3 entries routed to
\* life-os/.github/workflows/, brevard-bidder-scraper/src/scrapers/ and
\* life-os/docs/.
C5_ThreeFilesAsStated ==
    ThreeFilesDeployed =>
        /\ Len(deployment_log) = 3
        /\ RoutedTo(N_deploy_yml, "life-os", P_workflows)
        /\ RoutedTo(N_scraper_main_py, "brevard-bidder-scraper", P_scrapers)
        /\ RoutedTo(N_notes_md, "life-os", P_docs)

\* C5 amended: the three files give a log of 3 entries routed to
\* life-os/.github/workflows/ (deploy.yml), life-os/src/ (scraper_main.py,
\* which has no "_scraper" in its name) and life-os/docs/ (notes.md).
C5_ThreeFilesRouted ==
    ThreeFilesDeployed =>
        /\ Len(deployment_log) = 3
        /\ RoutedTo(N_deploy_yml, "life-os", P_workflows)
        /\ RoutedTo(N_scraper_main_py, "life-os", P_src)
        /\ RoutedTo(N_notes_md, "life-os", P_docs)

\* C5 witness: the scenario's run has returned with its three entries
C5_Witness == ThreeFilesDeployed /\ Len(deployment_log) = 3

\* C9 as stated: whenever the log has just been saved, it holds only the
\* entries of the latest deploy_all run, and total_deployments is their number.
C9_SavedLogIsLatestRun ==
    pc = "saved" =>
        /\ log_file.total_deployments = Len(log_file.deployments)
        /\ ResultsOf(log_file.deployments) = SelectSeq(results, IsPrepared)

\* the last n elements of s
LastN(s, n) == SubSeq(s, Len(s) - n + 1, Len(s))

\* the paths of the scanned files that are readable, in scan order
ReadablePaths ==
    LET ok(f) == Readable(f)
        kept  == SelectSeq(files, ok)
    IN  [i \in 1..Len(kept) |-> PathStr(kept[i])]

\* C9 amended: within one deployer object the log is append-only (an
\* iteration of deploy_all leaves it alone or appends one entry, for the file
\* at hand, at the end; no other method changes it; only a new deployer
\* starts from an empty log), so entries are in scan order.  The saved log is
\* the whole in-memory log with total_deployments its length: it ends with
\* the latest run's entries, and holds only those when exactly one deploy_all
\* ran on the deployer (as in main); a further deploy_all on the same object
\* appends after the earlier run's entries.
C9_AppendOnlyReplacedPerDeployer ==
    [][ /\ pc = "loop" =>
             \/ deployment_log' = deployment_log
             \/ /\ Len(deployment_log') = Len(deployment_log) + 1
                /\ SubSeq(deployment_log', 1, Len(deployment_log)) = deployment_log
                /\ deployment_log'[Len(deployment_log')].filepath = PathStr(files[idx])
        /\ (pc # "loop" /\ pc' # "constructed") => deployment_log' = deployment_log
        /\ pc' = "constructed" => deployment_log' = <<>>
        /\ pc' = "returned" =>
             /\ Len(deployment_log') >= Len(SelectSeq(results', IsPrepared))
             /\ LET n == Len(SelectSeq(results', IsPrepared))
                    last == LastN(deployment_log', n)
                IN  /\ ResultsOf(last) = SelectSeq(results', IsPrepared)
                    /\ pc = "loop" =>
                         [i \in 1..n |-> last[i].filepath] = ReadablePaths
        /\ pc' = "saved" =>
             /\ log_file'.deployments = deployment_log'
             /\ log_file'.total_deployments = Len(log_file'.deployments)
             /\ LastN(ResultsOf(log_file'.deployments),
                      Len(SelectSeq(results', IsPrepared)))
                    = SelectSeq(results', IsPrepared)
             /\ calls' <= 1 =>
                  ResultsOf(log_file'.deployments) = SelectSeq(results', IsPrepared)
      ]_vars

\* C9 witness: a log of two entries saved after the one deploy_all of a
\* deployer
C9_Witness ==
    /\ pc = "saved"
    /\ calls = 1
    /\ Len(log_file.deployments) >= 2
    /\ Len(files) >= 3

-----------------------------------------------------------------------------
(* Properties of the verifier, checked under VerifySpec and VerifyLive *)

LogLoaded == log_data # None

\* verify_all has returned its summary
Summarised == summary # None

\* what the k-th existence query met
QueryOutcome(k) == trace[2 * k].outcome

Status200 == [raised |-> FALSE, stdout |-> <<"2","0","0">>]
Status404 == [raised |-> FALSE, stdout |-> <<"4","0","4">>]

TrueCount(details) ==
    Cardinality({i \in 1..Len(details) : details[i].verified})

\* C3: verify_all on a log with no entries raises nothing and returns
\* total = 0, verified = 0, failed = 0, success_rate = 0 and no details.
C3_EmptyLogSummary ==
    (LogLoaded /\ vpc \in {"save", "exit", "done"} /\ Deployments = <<>>) =>
        /\ Summarised
        /\ summary = [total |-> 0, verified |-> 0, failed |-> 0,
                      success_rate |-> Float(0, 1), details |-> <<>>]

\* C6: on a non-empty log verify_all returns the per-entry results in log
\* order, an entry's flag true exactly when its query returned status 200
\* (not for another status, a timeout or an error), total = the number of
\* entries, verified = the number of true flags, failed = total - verified
\* and success_rate = verified / total; outcomes 200 then 404 on two entries
\* give verified = 1, failed = 1, success_rate = 1/2.
C6_VerifyAllCounts ==
    (Summarised /\ Deployments # <<>>) =>
        /\ summary.total = Len(Deployments)
        /\ Len(summary.details) = summary.total
        /\ \A i \in 1..Len(Deployments) :
             /\ summary.details[i].filename = Deployments[i].manifest.filename
             /\ summary.details[i].repo = Deployments[i].manifest.target_repo
             /\ summary.details[i].path = Deployments[i].manifest.target_path
             /\ summary.details[i].verified <=> (QueryOutcome(i) = Status200)
        /\ summary.verified = TrueCount(summary.details)
        /\ summary.failed = summary.total - summary.verified
        /\ summary.success_rate.num * summary.total
               = summary.verified * summary.success_rate.den
        /\ summary.success_rate.den > 0
        /\ (/\ summary.total = 2
            /\ QueryOutcome(1) = Status200
            /\ QueryOutcome(2) = Status404) =>
               /\ summary.verified = 1
               /\ summary.failed = 1
               /\ summary.success_rate = [num |-> 1, den |-> 2]

\* C6 witness: a log of two entries verified with outcomes 200 and 404
C6_Witness ==
    /\ Summarised
    /\ summary.total = 2
    /\ QueryOutcome(1) = Status200
    /\ QueryOutcome(2) = Status404
    /\ summary.verified = 1

IsQuery(e) == e.ev = "query"

\* C7: the verifier's main exits 0 if every entry of the loaded log verified
\* (also when the log has no entries) and non-zero if an entry failed, the
\* report being written in both cases; it exits non-zero before any query if
\* the log file is missing or unparseable.
C7_ExitCodes ==
    vpc = "done" =>
        IF log_file \in {None, Garbage}
        THEN /\ exit_code # 0
             /\ SelectSeq(trace, IsQuery) = <<>>
        ELSE /\ report_file # None
             /\ IF \A i \in 1..Len(log_file.deployments) :
                      i <= Len(vresults) /\ vresults[i].verified
                THEN exit_code = 0
                ELSE exit_code # 0

\* the delays and queries made so far: a delay, then the query of entry 1, a
\* delay, then the query of entry 2, ...; one query per entry handled
Throttled ==
    /\ \A k \in 1..Len(trace) :
         trace[k].ev = IF k % 2 = 1 THEN "sleep" ELSE "query"
    /\ Len(trace) = 2 * Len(vresults) + (IF vpc = "query" THEN 1 ELSE 0)
    /\ \A k \in 1..Len(vresults) :
         /\ trace[2 * k].repo = Deployments[k].manifest.target_repo
         /\ trace[2 * k].path = Deployments[k].manifest.target_path
    /\ (LogLoaded /\ vpc \in {"summary", "save", "exit", "done"}) =>
         Len(SelectSeq(trace, IsQuery)) = Len(Deployments)
    /\ ~LogLoaded => trace = <<>>

\* C8: verify_all issues exactly one query per log entry, each after its own
\* delay and after the query of the entry before it has completed, never two
\* queries without a delay between them, and every run ends.
C8_SerializedThrottled == []Throttled /\ <>(vpc = "done")

\* C8 witness: a run over three entries has ended, one of its queries having
\* timed out
C8_Witness ==
    /\ vpc = "done"
    /\ LogLoaded
    /\ Len(log_data.deployments) = 3
    /\ Len(trace) = 6
    /\ \E k \in 1..3 : QueryOutcome(k).raised

-----------------------------------------------------------------------------
(* Properties of route_file, checked under RouteSpec *)

\* the rules whose pattern matches name, by position in ROUTING_RULES
Matching(name) ==
    {k \in 1..Len(ROUTING_RULES) : re_match(ROUTING_RULES[k].pattern, name)}

Earliest(S) == CHOOSE k \in S : \A j \in S : k <= j

\* C4: route_file returns one destination for every file name: that of the
\* earliest-declared rule whose pattern matches the bare name, or the default
\* (life-os, artifacts/, Unclassified artifact) when none matches;
\* pipeline_scraper.py goes to the scraper-module destination, pipeline.py to
\* the generic Python-module destination.
C4_FirstMatchRouting ==
    route_out # None =>
        LET name == PathName(route_in)
            M    == Matching(name)
        IN  /\ route_out.filename = name
            /\ IF M = {}
               THEN /\ route_out.repo = "life-os"
                    /\ route_out.path = P_artifacts
                    /\ route_out.description = "Unclassified artifact"
               ELSE /\ route_out.repo = ROUTING_RULES[Earliest(M)].target.repo
                    /\ route_out.path = ROUTING_RULES[Earliest(M)].target.path
                    /\ route_out.description =
                           ROUTING_RULES[Earliest(M)].target.description
            /\ name = N_pipeline_scraper_py =>
                 /\ route_out.repo = "brevard-bidder-scraper"
                 /\ route_out.path = P_scrapers
                 /\ route_out.description = "Scraper module"
            /\ name = N_pipeline_py =>
                 /\ route_out.repo = "life-os"
                 /\ route_out.path = P_src
                 /\ route_out.description = "Python module"

\* C4 witness: pipeline_scraper.py, which the scraper rule and the later
\* generic Python rule both match, has been routed
C4_Witness ==
    /\ route_out # None
    /\ PathName(route_in) = N_pipeline_scraper_py
    /\ Cardinality(Matching(N_pipeline_scraper_py)) = 2
    /\ route_out.description = "Scraper module"

\* C10: no file name is routed to life-os/skills/: every name the last rule,
\* SKILL\.md$, matches is matched by the earlier Documentation rule, so
\* SKILL.md in any letter case goes to life-os/docs/ as 'Documentation'.
C10_SkillsRuleShadowed ==
    route_out # None =>
        LET name == PathName(route_in)
        IN  /\ route_out.path # P_skills
            /\ route_out.description # "Skill documentation"
            /\ re_match(R_skill.pattern, name) =>
                 /\ re_match(R_md.pattern, name)
                 /\ route_out.repo = "life-os"
                 /\ route_out.path = P_docs
                 /\ route_out.description = "Documentation"
            /\ name \in {N_SKILL_md, N_Skill_md} =>
                 /\ re_match(R_skill.pattern, name)
                 /\ route_out.path = P_docs

\* C10 witness: SKILL.md in mixed case, which the Skills rule matches, has
\* been routed
C10_Witness ==
    /\ route_out # None
    /\ PathName(route_in) = N_Skill_md
    /\ re_match(R_skill.pattern, N_Skill_md)
    /\ route_out.description = "Documentation"

=============================================================================
